---- MODULE Spec2Model ----
(***************************************************************************)
(* Detached JWS (rust-detached-jws): the streaming serializer               *)
(* (src/src/encode.rs) and the streaming deserializer (src/src/decode.rs). *)
(*                                                                         *)
(* Bytes are naturals 0..255; byte strings and text are sequences of       *)
(* bytes (text as its ASCII codes).  A JSON header is a set of             *)
(* <<key, value>> pairs with pairwise distinct keys; keys and values are   *)
(* strings of plain ASCII letters/digits (nothing that JSON would escape). *)
(***************************************************************************)
EXTENDS Integers, Sequences, FiniteSets, TLC

\* ---------------------------------------------------------------- bounds

\* Longest payload of the generic calls (the concrete vector of the docs has
\* its own fixed payload of 7 bytes).
MaxPayloadLen == 3

\* Number of finish() calls made on one writer.
MaxFinish == 2

\* ------------------------------------------------------------- constants

\* encode.rs:10 DOT_ARRAY = ".", decode.rs:12 DOT_BYTE = b'.'
DOT_BYTE == 46

DOT_ARRAY == <<DOT_BYTE>>

\* base64 works on groups of 3 input bytes (EncoderWriter keeps 0..2 bytes of
\* leftover input between writes).
MIN_ENCODE_CHUNK_SIZE == 3

\* "alg"
AlgKey == <<97, 108, 103>>

\* ----------------------------------------------------- sequence helpers

Drop(s, n) == SubSeq(s, n + 1, Len(s))

Take(s, n) == SubSeq(s, 1, n)

RECURSIVE Flatten(_)
Flatten(ss) == IF ss = <<>> THEN <<>> ELSE Head(ss) \o Flatten(Tail(ss))

\* Byte-wise lexicographic order of two strings (the order of String keys in
\* serde_json's Map, a BTreeMap).
RECURSIVE LexLess(_, _)
LexLess(a, b) ==
    IF b = <<>> THEN FALSE
    ELSE IF a = <<>> THEN TRUE
    ELSE IF Head(a) # Head(b) THEN Head(a) < Head(b)
    ELSE LexLess(Tail(a), Tail(b))

\* The fields of a byte string split on a separator byte (slice::split): a
\* string without separator is one field, the empty string is one empty field.
\* Field k lies between the (k-1)-th and the k-th separator.
SeparatorAt(s, sep, k) ==
    IF k = 0 THEN 0
    ELSE IF k > Cardinality({i \in 1..Len(s) : s[i] = sep}) THEN Len(s) + 1
    ELSE CHOOSE i \in 1..Len(s) :
             s[i] = sep /\ Cardinality({j \in 1..(i - 1) : s[j] = sep}) = k - 1

SplitOn(s, sep) ==
    [k \in 1..(Cardinality({i \in 1..Len(s) : s[i] = sep}) + 1) |->
        SubSeq(s, SeparatorAt(s, sep, k - 1) + 1, SeparatorAt(s, sep, k) - 1)]

\* ------------------------------------------------- base64 URL_SAFE_NO_PAD

\* The URL-safe alphabet: A-Z a-z 0-9 - _
B64Char(i) ==
    IF i < 26 THEN 65 + i
    ELSE IF i < 52 THEN 71 + i
    ELSE IF i < 62 THEN i - 4
    ELSE IF i = 62 THEN 45 ELSE 95

\* The 6-bit value of a symbol, -1 for a byte outside the alphabet.
B64Val(c) ==
    IF c >= 65 /\ c <= 90 THEN c - 65
    ELSE IF c >= 97 /\ c <= 122 THEN c - 71
    ELSE IF c >= 48 /\ c <= 57 THEN c + 4
    ELSE IF c = 45 THEN 62
    ELSE IF c = 95 THEN 63 ELSE -1

\* The k-th (0..3) 6-bit value of the group of bytes b1, b2, b3.
Sextet(b1, b2, b3, k) ==
    IF k = 0 THEN b1 \div 4
    ELSE IF k = 1 THEN (b1 % 4) * 16 + (b2 \div 16)
    ELSE IF k = 2 THEN (b2 % 16) * 4 + (b3 \div 64)
    ELSE b3 % 64

\* Complete groups of 3 bytes, 4 symbols each (encode_to_slice).
EncodeChunks(b) ==
    [i \in 1..(4 * (Len(b) \div MIN_ENCODE_CHUNK_SIZE)) |->
        B64Char(Sextet(b[3 * ((i - 1) \div 4) + 1], b[3 * ((i - 1) \div 4) + 2],
                       b[3 * ((i - 1) \div 4) + 3], (i - 1) % 4))]

\* The final 0, 1 or 2 bytes: 0, 2 or 3 symbols and no '=' padding.
EncodeFinal(extra) ==
    IF Len(extra) = 0 THEN <<>>
    ELSE IF Len(extra) = 1
         THEN << B64Char(Sextet(extra[1], 0, 0, 0)), B64Char(Sextet(extra[1], 0, 0, 1)) >>
         ELSE << B64Char(Sextet(extra[1], extra[2], 0, 0)),
                 B64Char(Sextet(extra[1], extra[2], 0, 1)),
                 B64Char(Sextet(extra[1], extra[2], 0, 2)) >>

\* EncoderWriter::write: one call consumes n bytes of buf, keeps `extra`
\* (0..2 bytes of input not yet encoded) and hands `emit` to the delegate.
\* It never encodes an incomplete group.
EncoderWrite(extra, buf) ==
    IF buf = <<>> THEN [n |-> 0, extra |-> extra, emit |-> <<>>]
    ELSE IF Len(extra) > 0 /\ Len(buf) + Len(extra) < MIN_ENCODE_CHUNK_SIZE
    THEN [n |-> 1, extra |-> Append(extra, buf[1]), emit |-> <<>>]
    ELSE IF Len(extra) = 0 /\ Len(buf) < MIN_ENCODE_CHUNK_SIZE
    THEN [n |-> Len(buf), extra |-> buf, emit |-> <<>>]
    ELSE LET fill  == IF Len(extra) > 0 THEN MIN_ENCODE_CHUNK_SIZE - Len(extra) ELSE 0
             first == IF Len(extra) > 0 THEN extra \o Take(buf, fill) ELSE <<>>
             rest  == Drop(buf, fill)
             whole == Len(rest) - (Len(rest) % MIN_ENCODE_CHUNK_SIZE)
         IN  [n |-> fill + whole, extra |-> <<>>,
              emit |-> EncodeChunks(first) \o EncodeChunks(Take(rest, whole))]

\* A variant of EncoderWriteAll that encodes every buffer to its end, leaving
\* nothing in the encoder.
EncoderWriteAllFlushing(extra, buf) ==
    [extra |-> <<>>,
     emit |-> EncodeChunks(Take(extra \o buf, Len(extra \o buf)
                                    - (Len(extra \o buf) % MIN_ENCODE_CHUNK_SIZE)))
              \o EncodeFinal(Drop(extra \o buf, Len(extra \o buf)
                                    - (Len(extra \o buf) % MIN_ENCODE_CHUNK_SIZE)))]

\* Write::write_all over EncoderWriter::write: write until buf is consumed.
RECURSIVE EncoderWriteAll(_, _)
WriteAllJoin(emit, r) == [extra |-> r.extra, emit |-> emit \o r.emit]

\* After one write took w.n bytes, the rest of buf is written.
WriteAllRest(w, buf) == WriteAllJoin(w.emit, EncoderWriteAll(w.extra, Drop(buf, w.n)))

EncoderWriteAll(extra, buf) ==
    IF buf = <<>> THEN [extra |-> extra, emit |-> <<>>]
    ELSE WriteAllRest(EncoderWrite(extra, buf), buf)

\* EncoderWriter::finish: the leftover input is encoded and emitted.
EncoderFinish(extra) == EncodeFinal(extra)

\* A sequence of write_all calls followed by finish, on a fresh encoder over
\* a Vec: the Vec's content.
RECURSIVE EncodePieces(_, _)
EncodeRest(w, pieces) == w.emit \o EncodePieces(w.extra, pieces)

EncodePieces(extra, pieces) ==
    IF pieces = <<>> THEN EncoderFinish(extra)
    ELSE EncodeRest(EncoderWriteAll(extra, Head(pieces)), Tail(pieces))

\* The encoding of a whole buffer: base64url-no-pad(b).
Base64UrlNoPad(b) ==
    LET whole == Len(b) - (Len(b) % MIN_ENCODE_CHUNK_SIZE)
    IN  EncodeChunks(Take(b, whole)) \o EncodeFinal(Drop(b, whole))

\* The k-th (0..2) byte of the group of 6-bit values a, b, c, d.
Octet(a, b, c, d, k) ==
    IF k = 0 THEN a * 4 + (b \div 16)
    ELSE IF k = 1 THEN (b % 16) * 16 + (c \div 4)
    ELSE (c % 4) * 64 + d

\* Complete groups of 4 symbols, 3 bytes each (symbols are valid).
DecodeQuads(s) ==
    [i \in 1..(3 * (Len(s) \div 4)) |->
        Octet(B64Val(s[4 * ((i - 1) \div 3) + 1]), B64Val(s[4 * ((i - 1) \div 3) + 2]),
              B64Val(s[4 * ((i - 1) \div 3) + 3]), B64Val(s[4 * ((i - 1) \div 3) + 4]),
              (i - 1) % 3)]

\* The decoding of complete groups `quads` followed by 0..3 symbols `tail`.
DecodeGroups(quads, tail) ==
    IF \E i \in 1..Len(quads) : B64Val(quads[i]) = -1
    THEN [ok |-> FALSE, bytes |-> <<>>]
    ELSE IF \E i \in 1..Len(tail) : B64Val(tail[i]) = -1
    THEN [ok |-> FALSE, bytes |-> <<>>]
    ELSE IF Len(tail) = 1 THEN [ok |-> FALSE, bytes |-> <<>>]
    ELSE IF Len(tail) = 2 /\ B64Val(tail[2]) % 16 # 0 THEN [ok |-> FALSE, bytes |-> <<>>]
    ELSE IF Len(tail) = 3 /\ B64Val(tail[3]) % 4 # 0 THEN [ok |-> FALSE, bytes |-> <<>>]
    ELSE [ok |-> TRUE,
          bytes |-> DecodeQuads(quads) \o
              (IF Len(tail) = 2
               THEN << Octet(B64Val(tail[1]), B64Val(tail[2]), 0, 0, 0) >>
               ELSE IF Len(tail) = 3
               THEN << Octet(B64Val(tail[1]), B64Val(tail[2]), B64Val(tail[3]), 0, 0),
                       Octet(B64Val(tail[1]), B64Val(tail[2]), B64Val(tail[3]), 0, 1) >>
               ELSE <<>>)]

\* base64::decode_config(.., URL_SAFE_NO_PAD) and DecoderReader: an error on
\* a byte outside the alphabet, on a length of 1 modulo 4 and on a last
\* symbol with non-zero trailing bits.
\* (Inputs with '=' are not part of this model's tokens.)
Base64Decode(s) ==
    DecodeGroups(Take(s, Len(s) - (Len(s) % 4)), Drop(s, Len(s) - (Len(s) % 4)))

\* ------------------------------------------------------------ JSON header

Keys(h) == {p[1] : p \in h}

Get(h, k) == (CHOOSE p \in h : p[1] = k)[2]

\* A variant of Insert that keeps the value of a key the map already holds.
InsertKeep(h, k, v) == IF k \in {p[1] : p \in h} THEN h ELSE h \cup {<<k, v>>}

\* Map::insert: sets or overwrites the value of key k.
Insert(h, k, v) == {p \in h : p[1] # k} \cup {<<k, v>>}

RECURSIVE SortedKeys(_)
SortedKeys(ks) ==
    IF ks = {} THEN <<>>
    ELSE LET m == CHOOSE k \in ks : \A o \in ks \ {k} : LexLess(k, o)
         IN  <<m>> \o SortedKeys(ks \ {m})

RECURSIVE MemberPieces(_, _, _)
MemberPieces(h, ks, first) ==
    IF ks = <<>> THEN <<>>
    ELSE (IF first THEN <<>> ELSE << <<44>> >>)
         \o << <<34>>, Head(ks), <<34>>, <<58>>, <<34>>, Get(h, Head(ks)), <<34>> >>
         \o MemberPieces(h, Tail(ks), FALSE)

\* serde_json::to_writer(&mut encoder, &header): the compact JSON text of the
\* map, keys in sorted order, handed to the writer piece by piece.
JsonPieces(h) ==
    << <<123>> >> \o MemberPieces(h, SortedKeys(Keys(h)), TRUE) \o << <<125>> >>

\* The JSON text as one string.
JsonText(h) == Flatten(JsonPieces(h))

\* encode.rs:134-138: the header is written through a base64 encoder into a
\* Vec, and the encoder is finished.
EncodeHeader(h) == EncodePieces(<<>>, JsonPieces(h))

IsWs(c) == c \in {32, 9, 10, 13}

RECURSIVE SkipWs(_, _)
SkipWs(s, i) == IF i <= Len(s) /\ IsWs(s[i]) THEN SkipWs(s, i + 1) ELSE i

JFail == [ok |-> FALSE, header |-> {}, next |-> 0]

\* The string from the quote at s[i] to the quote at s[j].
StringBody(body, j) ==
    IF \E m \in 1..Len(body) : body[m] = 92 \/ body[m] < 32
    THEN [ok |-> FALSE, val |-> <<>>, next |-> 0]
    ELSE [ok |-> TRUE, val |-> body, next |-> j + 1]

StringTo(s, i, j) == StringBody(SubSeq(s, i + 1, j - 1), j)

\* A JSON string starting at s[i] (texts of the model hold no escapes).
ParseString(s, i) ==
    IF i > Len(s) \/ s[i] # 34 THEN [ok |-> FALSE, val |-> <<>>, next |-> 0]
    ELSE IF \A j \in (i + 1)..Len(s) : s[j] # 34 THEN [ok |-> FALSE, val |-> <<>>, next |-> 0]
    ELSE StringTo(s, i, CHOOSE l \in (i + 1)..Len(s) :
                            s[l] = 34 /\ \A m \in (i + 1)..(l - 1) : s[m] # 34)

\* The members of an object from the key at s[i] to the closing brace; a
\* repeated key keeps its last value. Member values are strings.
RECURSIVE ParseMembers(_, _, _)
\* After a member, at s[e]: the closing brace, or a comma and more members.
ParseNext(s, e, acc) ==
    IF e > Len(s) THEN JFail
    ELSE IF s[e] = 125 THEN [ok |-> TRUE, header |-> acc, next |-> e + 1]
    ELSE IF s[e] = 44 THEN ParseMembers(s, SkipWs(s, e + 1), acc)
    ELSE JFail

\* The member of key k and value v is inserted.
ParseInsert(s, k, v, acc) ==
    IF ~v.ok THEN JFail
    ELSE ParseNext(s, SkipWs(s, v.next), Insert(acc, k.val, v.val))

\* After the key k, at s[c]: the colon and the value.
ParseValue(s, k, c, acc) ==
    IF c > Len(s) \/ s[c] # 58 THEN JFail
    ELSE ParseInsert(s, k, ParseString(s, SkipWs(s, c + 1)), acc)

ParseKey(s, k, acc) ==
    IF ~k.ok THEN JFail ELSE ParseValue(s, k, SkipWs(s, k.next), acc)

ParseMembers(s, i, acc) == ParseKey(s, ParseString(s, i), acc)

\* After the object r: nothing but whitespace.
ParseTrailing(s, r) ==
    IF ~r.ok THEN JFail
    ELSE IF SkipWs(s, r.next) <= Len(s) THEN JFail
    ELSE r

\* After the opening brace, at s[j]: the closing brace or the members.
ParseBody(s, j) ==
    ParseTrailing(s, IF j <= Len(s) /\ s[j] = 125
                     THEN [ok |-> TRUE, header |-> {}, next |-> j + 1]
                     ELSE ParseMembers(s, j, {}))

ParseObjectAt(s, i) ==
    IF i > Len(s) \/ s[i] # 123 THEN JFail ELSE ParseBody(s, SkipWs(s, i + 1))

\* serde_json::from_reader into Map<String, Value>: the text must be one JSON
\* object, with nothing but whitespace around it.
JsonParseObject(s) == ParseObjectAt(s, SkipWs(s, 1))

ParseDecoded(d) == IF ~d.ok THEN JFail ELSE JsonParseObject(d.bytes)

\* decode.rs:201-205: field 1 is read through a base64 decoder by the JSON
\* parser.
DecodeHeader(field) == ParseDecoded(Base64Decode(field))

\* ------------------------------------------- signing and verification

\* "RS256", "PS256": the tags of the two key pairs of the selector test
\* (tests.rs:146,152).
RS256 == <<82, 83, 50, 53, 54>>

PS256 == <<80, 83, 50, 53, 54>>

\* A session is [kind, buf]: buf is what has been written to it.
\*   "dummy"     tests.rs DummySigner / DummyVerifier: the signature is the
\*               bytes written; verify compares the candidate with them.
\*   "rs256", "ps256"  the OpenSSL sessions over the two key pairs, as an
\*               ideal scheme: a signature is valid for a key and a message
\*               iff that key's signer produced it over that message.
\*   "failing"   a session whose get_sign / verify returns Err.
\*   "rejecting" a signer whose write returns Err.
SignerKinds == {"dummy", "rs256", "ps256", "failing", "rejecting"}

VerifierKinds == {"dummy", "rs256", "ps256", "failing"}

NoSession == [kind |-> "none", buf |-> <<>>]

KeyTag(kind) == IF kind = "rs256" THEN <<1>> ELSE <<2>>

\* Write::write_all on a session.
SessionWrite(session, bytes) ==
    IF session.kind = "rejecting" THEN [ok |-> FALSE, session |-> session]
    ELSE [ok |-> TRUE, session |-> [session EXCEPT !.buf = @ \o bytes]]

\* Sign::get_sign
get_sign(signer) ==
    IF signer.kind = "failing" THEN [ok |-> FALSE, signature |-> <<>>]
    ELSE IF signer.kind = "dummy" THEN [ok |-> TRUE, signature |-> signer.buf]
    ELSE [ok |-> TRUE, signature |-> KeyTag(signer.kind) \o signer.buf]

\* A variant of verify that compares the lengths only.
verifyLength(verifier, signature) ==
    IF verifier.kind = "failing" THEN [ok |-> FALSE, valid |-> FALSE]
    ELSE IF verifier.kind = "dummy"
    THEN [ok |-> TRUE, valid |-> Len(signature) = Len(verifier.buf)]
    ELSE [ok |-> TRUE, valid |-> Len(signature) = Len(verifier.buf) + 1]

\* Verify::verify
verify(verifier, signature) ==
    IF verifier.kind = "failing" THEN [ok |-> FALSE, valid |-> FALSE]
    ELSE IF verifier.kind = "dummy"
    THEN [ok |-> TRUE, valid |-> signature = verifier.buf]
    ELSE [ok |-> TRUE, valid |-> signature = KeyTag(verifier.kind) \o verifier.buf]

\* A variant of Select whose branching selector ignores the header.
SelectFirstKey(selector, h) ==
    IF selector.type = "const"
    THEN [panic |-> FALSE, some |-> TRUE, kind |-> selector.kind]
    ELSE [panic |-> FALSE, some |-> TRUE, kind |-> "rs256"]

\* The header selectors:
\*   [type |-> "const", kind |-> v]  deserialize's `move |_| Some(verifier)`;
\*   [type |-> "byAlg"]  the selector of tests.rs selector_openssl: it
\*       unwraps h.get("alg") (a panic without the key) and branches on it.
Select(selector, h) ==
    IF selector.type = "const"
    THEN [panic |-> FALSE, some |-> TRUE, kind |-> selector.kind]
    ELSE IF AlgKey \notin Keys(h)
    THEN [panic |-> TRUE, some |-> FALSE, kind |-> "none"]
    ELSE IF Get(h, AlgKey) = RS256
    THEN [panic |-> FALSE, some |-> TRUE, kind |-> "rs256"]
    ELSE IF Get(h, AlgKey) = PS256
    THEN [panic |-> FALSE, some |-> TRUE, kind |-> "ps256"]
    ELSE [panic |-> FALSE, some |-> FALSE, kind |-> "none"]

\* ------------------------------------------------------ SerializeJwsWriter

\* struct SerializeJwsWriter { delegate: Option<W>, encoder: EncoderWriter<S> }
\* delegate = FALSE is None; `sink` is the content of W (kept after W has
\* been handed to the caller); encoder.delegate = FALSE is the encoder
\* after finish() took the signer out of it.
NoSerializer ==
    [delegate |-> FALSE, sink |-> <<>>,
     encoder |-> [delegate |-> FALSE, extra |-> <<>>],
     signer |-> NoSession]

\* A variant of SerNewSink that writes one dot to the sink.
SerNewSinkOneDot(encoded_header, s2) ==
    IF ~s2.ok THEN [ok |-> FALSE, err |-> "CryptoError", w |-> NoSerializer]
    ELSE [ok |-> TRUE, err |-> "",
          w |-> [delegate |-> TRUE,
                 sink |-> encoded_header \o DOT_ARRAY,
                 encoder |-> [delegate |-> TRUE, extra |-> <<>>],
                 signer |-> s2.session]]

\* encode.rs:143-150: the sink receives the header and two dots, and the
\* payload's encoder is opened over the signer.
SerNewSink(encoded_header, s2) ==
    IF ~s2.ok THEN [ok |-> FALSE, err |-> "CryptoError", w |-> NoSerializer]
    ELSE [ok |-> TRUE, err |-> "",
          w |-> [delegate |-> TRUE,
                 sink |-> encoded_header \o DOT_ARRAY \o DOT_ARRAY,
                 encoder |-> [delegate |-> TRUE, extra |-> <<>>],
                 signer |-> s2.session]]

\* A variant of SerNewSigner that writes no dot to the signer.
SerNewSignerNoDot(encoded_header, s1) ==
    IF ~s1.ok THEN [ok |-> FALSE, err |-> "CryptoError", w |-> NoSerializer]
    ELSE [ok |-> TRUE, err |-> "",
          w |-> [delegate |-> TRUE,
                 sink |-> encoded_header \o DOT_ARRAY \o DOT_ARRAY,
                 encoder |-> [delegate |-> TRUE, extra |-> <<>>],
                 signer |-> s1.session]]

\* A variant of SerNewSigner that has written to the sink before the signer
\* was written to.
SerNewSignerSinkFirst(encoded_header, s1) ==
    IF ~s1.ok
    THEN [ok |-> FALSE, err |-> "CryptoError",
          w |-> [NoSerializer EXCEPT !.sink = encoded_header \o DOT_ARRAY \o DOT_ARRAY]]
    ELSE SerNewSink(encoded_header, SessionWrite(s1.session, DOT_ARRAY))

\* encode.rs:140-141: the signer receives the header, then a dot.
SerNewSigner(encoded_header, s1) ==
    IF ~s1.ok THEN [ok |-> FALSE, err |-> "CryptoError", w |-> NoSerializer]
    ELSE SerNewSink(encoded_header, SessionWrite(s1.session, DOT_ARRAY))

SerNewEncoded(encoded_header, signerKind) ==
    SerNewSigner(encoded_header,
                 SessionWrite([kind |-> signerKind, buf |-> <<>>], encoded_header))

\* SerializeJwsWriter::new(Vec::new(), algorithm, header, signer)
SerNew(algorithm, header, signerKind) ==
    SerNewEncoded(EncodeHeader(Insert(header, AlgKey, algorithm)), signerKind)

\* A variant of SerForward that writes the encoded payload to the sink as
\* well.
SerForwardToSink(w, e) ==
    [ok |-> TRUE, err |-> "",
     w |-> [w EXCEPT !.encoder.extra = e.extra,
                     !.signer = SessionWrite(w.signer, e.emit).session,
                     !.sink = @ \o e.emit]]

\* The encoder kept e.extra and handed e.emit to the signer.
SerForward(w, e) ==
    [ok |-> TRUE, err |-> "",
     w |-> [w EXCEPT !.encoder.extra = e.extra,
                     !.signer = SessionWrite(w.signer, e.emit).session]]

\* write_all(buf) on the writer: Write::write forwards to the encoder, which
\* panics once finish() has taken its delegate.
SerWriteAll(w, buf) ==
    IF buf = <<>> THEN [ok |-> TRUE, err |-> "", w |-> w]
    ELSE IF ~w.encoder.delegate THEN [ok |-> FALSE, err |-> "Panic", w |-> w]
    ELSE SerForward(w, EncoderWriteAll(w.encoder.extra, buf))

\* A variant of SerFlush that ends the encoding: the bytes the encoder holds
\* are encoded and handed to the signer.
SerFlushFinal(w) ==
    IF ~w.encoder.delegate THEN [ok |-> FALSE, err |-> "Panic", w |-> w]
    ELSE [ok |-> TRUE, err |-> "",
          w |-> [w EXCEPT !.encoder.extra = <<>>,
                          !.signer = SessionWrite(w.signer,
                                                  EncoderFinish(w.encoder.extra)).session]]

\* flush() on the writer: Write::flush forwards to the encoder, which hands
\* its encoded output to the signer (none is pending: every write to a
\* session is complete), keeps its incomplete chunk and flushes the signer;
\* it panics once finish() has taken its delegate.
SerFlush(w) ==
    IF ~w.encoder.delegate THEN [ok |-> FALSE, err |-> "Panic", w |-> w]
    ELSE [ok |-> TRUE, err |-> "", w |-> w]

\* A variant of SerWriteSignature that leaves the sink in the writer.
SerWriteSignatureKeep(taken, sig) ==
    IF ~sig.ok
    THEN [ok |-> FALSE, err |-> "CryptoError", w |-> taken,
          signed |-> TRUE, input |-> taken.signer.buf]
    ELSE [ok |-> TRUE, err |-> "",
          w |-> [taken EXCEPT !.sink = @ \o EncodePieces(<<>>, <<sig.signature>>)],
          signed |-> TRUE, input |-> taken.signer.buf]

\* encode.rs:160-173: the signature is encoded and written to the sink, and
\* the sink is taken out of the writer.
SerWriteSignature(taken, sig) ==
    IF ~sig.ok
    THEN [ok |-> FALSE, err |-> "CryptoError", w |-> taken,
          signed |-> TRUE, input |-> taken.signer.buf]
    ELSE [ok |-> TRUE, err |-> "",
          w |-> [taken EXCEPT !.sink = @ \o EncodePieces(<<>>, <<sig.signature>>),
                              !.delegate = FALSE],
          signed |-> TRUE, input |-> taken.signer.buf]

\* A variant of SerGetSign in which the encoder keeps the signer, so that
\* finish can be run again.
SerGetSignRetry(w, signer) ==
    SerWriteSignature([w EXCEPT !.encoder.extra = <<>>, !.signer = signer],
                      get_sign(signer))

\* encode.rs:158-160: the encoder's finish() gave the signer back.
SerGetSign(w, signer) ==
    SerWriteSignature([w EXCEPT !.encoder = [delegate |-> FALSE, extra |-> <<>>],
                                !.signer = signer],
                      get_sign(signer))

\* SerializeJwsWriter::finish. `signed` tells whether get_sign was invoked,
\* `input` is what the signer had received by then.
SerFinish(w) ==
    IF ~w.delegate
    THEN [ok |-> FALSE, err |-> "AlreadyFinished", w |-> w,
          signed |-> FALSE, input |-> <<>>]
    ELSE IF ~w.encoder.delegate
    THEN [ok |-> FALSE, err |-> "Panic", w |-> w, signed |-> FALSE, input |-> <<>>]
    ELSE SerGetSign(w, SessionWrite(w.signer, EncoderFinish(w.encoder.extra)).session)

SerializeResult(f) ==
    IF ~f.ok THEN [ok |-> FALSE, err |-> f.err, token |-> <<>>]
    ELSE [ok |-> TRUE, err |-> "", token |-> f.w.sink]

\* A variant of SerializeCopy that leaves out the copy of the payload.
SerializeCopySkip(n, payload) ==
    IF ~n.ok THEN [ok |-> FALSE, err |-> n.err, token |-> <<>>]
    ELSE SerializeResult(SerFinish(n.w))

SerializeCopy(n, payload) ==
    IF ~n.ok THEN [ok |-> FALSE, err |-> n.err, token |-> <<>>]
    ELSE SerializeResult(SerFinish(SerWriteAll(n.w, payload).w))

\* serialize(algorithm, header, payload, signer): new, io::copy of the
\* payload (a slice is copied with one write_all), finish. The token, or the
\* error.
serialize(algorithm, header, payload, signerKind) ==
    SerializeCopy(SerNew(algorithm, header, signerKind), payload)

\* ---------------------------------------------------- DeserializeJwsWriter

\* struct DeserializeJwsWriter { encoder, header: Option<JwsHeader>, signature }
\* present = FALSE is header = None.
NoDeserializer ==
    [present |-> FALSE, header |-> {}, signature |-> <<>>,
     encoder |-> [delegate |-> FALSE, extra |-> <<>>],
     verifier |-> NoSession]

DesNewFail(e, calls) ==
    [ok |-> FALSE, err |-> e, w |-> NoDeserializer, selected |-> calls]

\* A variant of DesNewVerifier that writes no dot to the verifier.
DesNewVerifierNoDot(encoded_header, header, signature, sel) ==
    IF sel.panic THEN DesNewFail("Panic", <<header>>)
    ELSE IF ~sel.some THEN DesNewFail("VerifierNotFound", <<header>>)
    ELSE [ok |-> TRUE, err |-> "",
          w |-> [present |-> TRUE, header |-> header, signature |-> signature,
                 encoder |-> [delegate |-> TRUE, extra |-> <<>>],
                 verifier |-> SessionWrite([kind |-> sel.kind, buf |-> <<>>],
                                           encoded_header).session],
          selected |-> <<header>>]

\* A variant of DesNewVerifier that gives the verifier a new encoding of the
\* parsed header.
DesNewVerifierReencoded(encoded_header, header, signature, sel) ==
    IF sel.panic THEN DesNewFail("Panic", <<header>>)
    ELSE IF ~sel.some THEN DesNewFail("VerifierNotFound", <<header>>)
    ELSE [ok |-> TRUE, err |-> "",
          w |-> [present |-> TRUE, header |-> header, signature |-> signature,
                 encoder |-> [delegate |-> TRUE, extra |-> <<>>],
                 verifier |->
                     SessionWrite(SessionWrite([kind |-> sel.kind, buf |-> <<>>],
                                               EncodeHeader(header)).session,
                                  <<DOT_BYTE>>).session],
          selected |-> <<header>>]

\* decode.rs:215-224: the selected verifier receives the header field and a
\* dot, and the payload's encoder is opened over it.
DesNewVerifier(encoded_header, header, signature, sel) ==
    IF sel.panic THEN DesNewFail("Panic", <<header>>)
    ELSE IF ~sel.some THEN DesNewFail("VerifierNotFound", <<header>>)
    ELSE [ok |-> TRUE, err |-> "",
          w |-> [present |-> TRUE, header |-> header, signature |-> signature,
                 encoder |-> [delegate |-> TRUE, extra |-> <<>>],
                 verifier |->
                     SessionWrite(SessionWrite([kind |-> sel.kind, buf |-> <<>>],
                                               encoded_header).session,
                                  <<DOT_BYTE>>).session],
          selected |-> <<header>>]

\* A variant of DesNewSelect that asks the selector before it decodes the
\* signature field.
DesNewSelectFirst(encoded_header, header, signature, selector) ==
    IF Select(selector, header).panic THEN DesNewFail("Panic", <<header>>)
    ELSE IF ~Select(selector, header).some
    THEN DesNewFail("VerifierNotFound", <<header>>)
    ELSE IF ~signature.ok THEN DesNewFail("FormatError", <<header>>)
    ELSE [ok |-> TRUE, err |-> "",
          w |-> [present |-> TRUE, header |-> header, signature |-> signature.bytes,
                 encoder |-> [delegate |-> TRUE, extra |-> <<>>],
                 verifier |->
                     SessionWrite(SessionWrite([kind |-> Select(selector, header).kind,
                                                buf |-> <<>>],
                                               encoded_header).session,
                                  <<DOT_BYTE>>).session],
          selected |-> <<header>>]

\* decode.rs:209-215: the signature field is decoded, then the selector is
\* asked for a verifier.
DesNewSelect(encoded_header, header, signature, selector) ==
    IF ~signature.ok THEN DesNewFail("FormatError", <<>>)
    ELSE DesNewVerifier(encoded_header, header, signature.bytes,
                        Select(selector, header))

\* A variant of DesNewSplits that skips no field: the signature is the field
\* after the header.
DesNewSplitsNoSkip(splits, header, selector) ==
    IF ~header.ok THEN DesNewFail("FormatError", <<>>)
    ELSE IF Len(splits) < 2 THEN DesNewFail("FormatError", <<>>)
    ELSE DesNewSelect(splits[1], header.header, Base64Decode(splits[2]), selector)

\* decode.rs:199-213: field 1 is the header; one field is skipped; the next
\* one is the signature.
DesNewSplits(splits, header, selector) ==
    IF ~header.ok THEN DesNewFail("FormatError", <<>>)
    ELSE IF Len(splits) < 3 THEN DesNewFail("FormatError", <<>>)
    ELSE DesNewSelect(splits[1], header.header, Base64Decode(splits[3]), selector)

DesNewFields(splits, selector) ==
    DesNewSplits(splits, DecodeHeader(splits[1]), selector)

\* DeserializeJwsWriter::new(jws, selector). `selected` is the sequence of
\* headers the selector was invoked with.
DesNew(jws, selector) == DesNewFields(SplitOn(jws, DOT_BYTE), selector)

\* The encoder kept e.extra and handed e.emit to the verifier.
DesForward(w, e) ==
    [ok |-> TRUE, err |-> "",
     w |-> [w EXCEPT !.encoder.extra = e.extra,
                     !.verifier = SessionWrite(w.verifier, e.emit).session]]

\* write_all(buf) on the writer.
DesWriteAll(w, buf) ==
    IF buf = <<>> THEN [ok |-> TRUE, err |-> "", w |-> w]
    ELSE IF ~w.encoder.delegate THEN [ok |-> FALSE, err |-> "Panic", w |-> w]
    ELSE DesForward(w, EncoderWriteAll(w.encoder.extra, buf))

\* flush() on the writer: Write::flush forwards to the encoder, as the
\* serializer's does.
DesFlush(w) ==
    IF ~w.encoder.delegate THEN [ok |-> FALSE, err |-> "Panic", w |-> w]
    ELSE [ok |-> TRUE, err |-> "", w |-> w]

\* A variant of DesCheck that reports an error of verify as an invalid
\* signature.
DesCheckAsInvalid(taken, check) ==
    IF check.ok /\ check.valid
    THEN [ok |-> TRUE, err |-> "",
          w |-> [taken EXCEPT !.present = FALSE], header |-> taken.header,
          verified |-> TRUE, check |-> check, input |-> taken.verifier.buf]
    ELSE [ok |-> FALSE, err |-> "SignatureInvalid", w |-> taken,
          header |-> {}, verified |-> TRUE, check |-> check,
          input |-> taken.verifier.buf]

\* decode.rs:231-237: the verifier's answer decides; the header is taken out
\* of the writer only when it is returned.
DesCheck(taken, check) ==
    IF ~check.ok
    THEN [ok |-> FALSE, err |-> "CryptoError", w |-> taken, header |-> {},
          verified |-> TRUE, check |-> check, input |-> taken.verifier.buf]
    ELSE IF check.valid
    THEN [ok |-> TRUE, err |-> "",
          w |-> [taken EXCEPT !.present = FALSE], header |-> taken.header,
          verified |-> TRUE, check |-> check, input |-> taken.verifier.buf]
    ELSE [ok |-> FALSE, err |-> "SignatureInvalid", w |-> taken,
          header |-> {}, verified |-> TRUE, check |-> check,
          input |-> taken.verifier.buf]

\* decode.rs:229-231: the encoder's finish() gave the verifier back.
DesVerify(w, verifier) ==
    DesCheck([w EXCEPT !.encoder = [delegate |-> FALSE, extra |-> <<>>],
                       !.verifier = verifier],
             verify(verifier, w.signature))

\* DeserializeJwsWriter::finish. `verified` tells whether verify was
\* invoked, `check` is its answer, `input` what the verifier had received.
DesFinish(w) ==
    IF ~w.present
    THEN [ok |-> FALSE, err |-> "AlreadyFinished", w |-> w, header |-> {},
          verified |-> FALSE, check |-> [ok |-> FALSE, valid |-> FALSE],
          input |-> <<>>]
    ELSE IF ~w.encoder.delegate
    THEN [ok |-> FALSE, err |-> "Panic", w |-> w, header |-> {},
          verified |-> FALSE, check |-> [ok |-> FALSE, valid |-> FALSE],
          input |-> <<>>]
    ELSE DesVerify(w, SessionWrite(w.verifier, EncoderFinish(w.encoder.extra)).session)

DeserializeResult(f) ==
    IF ~f.ok THEN [ok |-> FALSE, err |-> f.err, header |-> {}]
    ELSE [ok |-> TRUE, err |-> "", header |-> f.header]

DeserializeCopy(n, payload) ==
    IF ~n.ok THEN [ok |-> FALSE, err |-> n.err, header |-> {}]
    ELSE DeserializeResult(DesFinish(DesWriteAll(n.w, payload).w))

\* deserialize_selector(jws, payload, selector): new, io::copy, finish.
deserialize_selector(jws, payload, selector) ==
    DeserializeCopy(DesNew(jws, selector), payload)

\* deserialize(jws, payload, verifier)
deserialize(jws, payload, verifierKind) ==
    deserialize_selector(jws, payload, [type |-> "const", kind |-> verifierKind])

\* ------------------------------------------------------ calls of the model

\* A third algorithm tag, for which the selector of the test has no branch.
HS256 == <<72, 83, 50, 53, 54>>

Algs == {RS256, PS256, HS256}

\* {}, {"k":"v"} and {"alg":"zz","k":"v"}
HeaderEmpty == {}

HeaderKV == {<< <<107>>, <<118>> >>}

HeaderAlg == {<< AlgKey, <<122, 122>> >>, << <<107>>, <<118>> >>}

Headers == {HeaderEmpty, HeaderKV, HeaderAlg}

PayloadBytes == {0, 255}

Payloads == UNION {[1..n -> PayloadBytes] : n \in 0..MaxPayloadLen}

\* The concrete vector of the documentation (encode.rs:44-55, tests.rs:59-70):
\* header {"custom":"custom_value"}, algorithm "test_algorithm", payload
\* [0, 1, 2, 3, 4, 5, 6], DummySigner.
VectorCall ==
    [algorithm |-> <<116, 101, 115, 116, 95, 97, 108, 103, 111, 114, 105, 116, 104, 109>>,
     header |-> {<< <<99, 117, 115, 116, 111, 109>>,
                    <<99, 117, 115, 116, 111, 109, 95, 118, 97, 108, 117, 101>> >>},
     payload |-> <<0, 1, 2, 3, 4, 5, 6>>,
     signer |-> "dummy"]

\* The literal token of encode.rs:55.
VectorToken ==
    <<101, 121, 74, 104, 98, 71, 99, 105, 79, 105, 74, 48, 90, 88, 78, 48, 88, 50, 70, 115,
      90, 50, 57, 121, 97, 88, 82, 111, 98, 83, 73, 115, 73, 109, 78, 49, 99, 51, 82, 118,
      98, 83, 73, 54, 73, 109, 78, 49, 99, 51, 82, 118, 98, 86, 57, 50, 89, 87, 120, 49,
      90, 83, 74, 57, 46, 46, 90, 88, 108, 75, 97, 71, 74, 72, 89, 50, 108, 80, 97, 85,
      111, 119, 87, 108, 104, 79, 77, 70, 103, 121, 82, 110, 78, 97, 77, 106, 108, 53, 89, 86,
      104, 83, 98, 50, 74, 84, 83, 88, 78, 74, 98, 85, 52, 120, 89, 122, 78, 83, 100, 109,
      74, 84, 83, 84, 90, 74, 98, 85, 52, 120, 89, 122, 78, 83, 100, 109, 74, 87, 79, 84,
      74, 90, 86, 51, 103, 120, 87, 108, 78, 75, 79, 83, 53, 66, 81, 85, 86, 68, 81, 88,
      100, 82, 82, 107, 74, 110>>

\* The calls of the serializer: (algorithm, header, payload, signer).
SerCalls ==
    [algorithm : Algs, header : Headers, payload : Payloads, signer : SignerKinds]
        \cup {VectorCall}

\* One payload of each length: 85, 170, 255, 84, ...
PatternPayload(n) == [i \in 1..n |-> (i * 85) % 256]

\* The calls whose token is handed to the deserializer in the round trip.
RoundTripCalls ==
    [algorithm : {RS256, HS256}, header : Headers,
     payload : {PatternPayload(n) : n \in 0..MaxPayloadLen},
     signer : {"dummy", "rs256", "ps256"}] \cup {VectorCall}

Const(kind) == [type |-> "const", kind |-> kind]

ByAlg == [type |-> "byAlg", kind |-> "none"]

Selectors == {Const(k) : k \in VerifierKinds} \cup {ByAlg}

NoCall == [algorithm |-> <<>>, header |-> {}, payload |-> <<>>, signer |-> "none"]

NoDCall ==
    [jws |-> <<>>, payload |-> <<>>, selector |-> Const("none"), origin |-> NoCall,
     tamper |-> "unset"]

\* The tokens of the deserializer's calls are made by serialize from these.
DesOrigins ==
    [algorithm : Algs, header : {HeaderKV},
     payload : {PatternPayload(n) : n \in 0..MaxPayloadLen},
     signer : {"dummy", "rs256", "ps256"}]

\* The origins of the tokens whose signature field is tampered with.
TamperOrigins == {o \in DesOrigins : o.algorithm = RS256 /\ o.signer \in {"dummy", "rs256"}}

Token(o) == serialize(o.algorithm, o.header, o.payload, o.signer).token

\* The untouched token and payload, under every selector.
ExactCalls ==
    {[jws |-> Token(o), payload |-> o.payload, selector |-> s, origin |-> o,
      tamper |-> "none"] : o \in DesOrigins, s \in Selectors}
    \cup {[jws |-> VectorToken, payload |-> VectorCall.payload,
           selector |-> Const("dummy"), origin |-> VectorCall, tamper |-> "none"]}

\* The bytes a signature byte is changed to: two symbols of the alphabet,
\* the separator and a byte outside the alphabet.
TamperBytes == {65, 81, DOT_BYTE, 33}

SignatureStart(jws) == Len(jws) - Len(SplitOn(jws, DOT_BYTE)[3]) + 1

\* Field 1 values that are not the base64url of a JSON object: a byte
\* outside the alphabet, a length of 1 modulo 4, the texts "x" (with its
\* quotes), [] and {"k" and {"k":"v"}x, and the empty field.
BadHeaderFields ==
    {<<101, 33, 48>>, <<101, 51, 48, 65, 65>>, <<73, 110, 103, 105>>, <<87, 49, 48>>,
     <<101, 121, 74, 114, 73, 103>>,
     <<101, 121, 74, 114, 73, 106, 111, 105, 100, 105, 74, 57, 101, 65>>, <<>>}

\* Field 3 values that are not base64url-no-pad: a byte outside the
\* alphabet, a length of 1 modulo 4, non-zero trailing bits.
BadSignatureFields == {<<81, 33>>, <<81>>, <<81, 82>>, <<81, 81, 81, 81, 81>>}

MalformedOrigin ==
    [algorithm |-> RS256, header |-> HeaderKV, payload |-> PatternPayload(2),
     signer |-> "rs256"]

MalformedToken == Token(MalformedOrigin)

MalformedFields == SplitOn(MalformedToken, DOT_BYTE)

\* Tokens with fewer than 3 fields, a bad field 1 or a bad field 3.
RejectedTokensOf(f1, f3) ==
    {<<>>, f1, f1 \o DOT_ARRAY, f1 \o DOT_ARRAY \o f3, DOT_ARRAY \o f3}
        \cup {b \o DOT_ARRAY \o DOT_ARRAY \o f3 : b \in BadHeaderFields}
        \cup {b \o DOT_ARRAY \o f3 : b \in BadHeaderFields}
        \cup {f1 \o DOT_ARRAY \o DOT_ARRAY \o b : b \in BadSignatureFields}

RejectedTokens ==
    UNION {RejectedTokensOf(f[1], f[3]) : f \in {MalformedFields}}

\* Tokens with more than 3 fields, with a non-empty middle field, and with a
\* header that has no alg key ({} and  {"k" : "v"}  with whitespace).
OddTokensOf(t, f1, f3) ==
    {t \o DOT_ARRAY, t \o DOT_ARRAY \o <<65, 65, 65, 65>>,
     t \o DOT_ARRAY \o f3 \o DOT_ARRAY \o f3,
     f1 \o DOT_ARRAY \o <<120, 121, 122>> \o DOT_ARRAY \o f3,
     <<101, 51, 48>> \o DOT_ARRAY \o DOT_ARRAY \o f3,
     <<73, 72, 115, 105, 97, 121, 73, 103, 79, 105, 65, 105, 100, 105, 74, 57, 73, 65>>
         \o DOT_ARRAY \o DOT_ARRAY \o f3}

OddTokens ==
    UNION {OddTokensOf(f[1] \o DOT_ARRAY \o f[2] \o DOT_ARRAY \o f[3], f[1], f[3])
           : f \in {MalformedFields}}

MalformedCalls ==
    {[jws |-> t, payload |-> MalformedOrigin.payload, selector |-> s,
      origin |-> MalformedOrigin, tamper |-> "format"]
     : t \in RejectedTokens \cup OddTokens, s \in {ByAlg, Const("rs256")}}

DesCalls == ExactCalls \cup MalformedCalls

\* ------------------------------------------------------------- the state

VARIABLES
    sCall,       \* the serializer's call: algorithm, header, payload, signer
    sPc,         \* "start", "open" (new returned Ok), "failed" (new returned
                 \* Err) or "panicked"
    sNew,        \* the error of new ("" for Ok)
    ser,         \* the SerializeJwsWriter
    sPos,        \* the number of payload bytes written so far
    sTrace,      \* what the writes so far were like
    sFinishes,   \* the outcome of every finish() call, in order
    signCalls,   \* the signer's input at every get_sign call, in order
    dCall,       \* the deserializer's call: jws, payload, selector
    dPc,
    dNew,        \* the outcome of new: its error and the selector's calls
    des,         \* the DeserializeJwsWriter
    dPos,
    dTrace,
    dFinishes,   \* the outcome of every finish() call, in order
    verifyCalls  \* every verify call: verifier, its input, candidate, answer

serVars == <<sCall, sPc, sNew, ser, sPos, sTrace, sFinishes, signCalls>>

desVars == <<dCall, dPc, dNew, des, dPos, dTrace, dFinishes, verifyCalls>>

vars == <<sCall, sPc, sNew, ser, sPos, sTrace, sFinishes, signCalls,
          dCall, dPc, dNew, des, dPos, dTrace, dFinishes, verifyCalls>>

\* chunks: the number of non-empty write_all calls; empty: an empty chunk was
\* written; left: some write_all left 1 or 2 bytes in the encoder; flushed:
\* flush was called; held: flush was called while the encoder held 1 or 2
\* bytes.
NoTrace ==
    [chunks |-> 0, empty |-> FALSE, left |-> FALSE, flushed |-> FALSE, held |-> FALSE]

Traced(t, n, extra) ==
    [chunks |-> IF n > 0 THEN t.chunks + 1 ELSE t.chunks,
     empty |-> t.empty \/ n = 0,
     left |-> t.left \/ Len(extra) > 0,
     flushed |-> t.flushed,
     held |-> t.held]

SerIdle ==
    /\ sPc = "start"
    /\ sNew = ""
    /\ ser = NoSerializer
    /\ sPos = 0
    /\ sTrace = NoTrace
    /\ sFinishes = <<>>
    /\ signCalls = <<>>

DesIdle ==
    /\ dPc = "start"
    /\ dNew = [err |-> "", selected |-> <<>>]
    /\ des = NoDeserializer
    /\ dPos = 0
    /\ dTrace = NoTrace
    /\ dFinishes = <<>>
    /\ verifyCalls = <<>>

\* ------------------------------------------------------------ serializer

\* SerializeJwsWriter::new on the call's arguments.
SerNewStep ==
    /\ sPc = "start"
    /\ sCall # NoCall
    /\ \E r \in {SerNew(sCall.algorithm, sCall.header, sCall.signer)} :
           /\ ser' = r.w
           /\ sNew' = r.err
           /\ sPc' = IF r.ok THEN "open" ELSE "failed"
    /\ UNCHANGED <<sCall, sPos, sTrace, sFinishes, signCalls>>
    /\ UNCHANGED desVars

\* write_all of the next n bytes of the payload (n = 0: an empty chunk).
SerWriteStep ==
    /\ sPc = "open"
    /\ \E n \in 0..(Len(sCall.payload) - sPos) :
          \E r \in {SerWriteAll(ser, SubSeq(sCall.payload, sPos + 1, sPos + n))} :
              /\ ser' = r.w
              /\ sPc' = IF r.ok THEN "open" ELSE "panicked"
              /\ sPos' = IF r.ok THEN sPos + n ELSE sPos
              /\ sTrace' = IF r.ok THEN Traced(sTrace, n, r.w.encoder.extra) ELSE sTrace
    /\ UNCHANGED <<sCall, sNew, sFinishes, signCalls>>
    /\ UNCHANGED desVars

\* flush()
SerFlushStep ==
    /\ sPc = "open"
    /\ \E r \in {SerFlush(ser)} :
           /\ ser' = r.w
           /\ sPc' = IF r.ok THEN "open" ELSE "panicked"
           /\ sTrace' = IF r.ok
                        THEN [sTrace EXCEPT !.flushed = TRUE,
                                            !.held = @ \/ Len(ser.encoder.extra) > 0]
                        ELSE sTrace
    /\ UNCHANGED <<sCall, sNew, sPos, sFinishes, signCalls>>
    /\ UNCHANGED desVars

\* finish()
SerFinishStep ==
    /\ sPc = "open"
    /\ Len(sFinishes) < MaxFinish
    /\ \E r \in {SerFinish(ser)} :
           /\ ser' = r.w
           /\ signCalls' = IF r.signed THEN Append(signCalls, r.input) ELSE signCalls
           /\ sFinishes' = Append(sFinishes,
                  [ok |-> r.ok, err |-> r.err, sink |-> r.w.sink,
                   signs |-> Len(signCalls')])
           /\ sPc' = IF r.err = "Panic" THEN "panicked" ELSE "open"
    /\ UNCHANGED <<sCall, sNew, sPos, sTrace>>
    /\ UNCHANGED desVars

\* ---------------------------------------------------------- deserializer

\* DeserializeJwsWriter::new on the call's arguments.
DesNewStep ==
    /\ dPc = "start"
    /\ dCall # NoDCall
    /\ \E r \in {DesNew(dCall.jws, dCall.selector)} :
           /\ des' = r.w
           /\ dNew' = [err |-> r.err, selected |-> r.selected]
           /\ dPc' = IF r.ok THEN "open" ELSE IF r.err = "Panic" THEN "panicked" ELSE "failed"
    /\ UNCHANGED <<dCall, dPos, dTrace, dFinishes, verifyCalls>>
    /\ UNCHANGED serVars

\* A variant of DesWriteStep in which the two pipelines share one session:
\* the bytes the encoder hands to the verifier reach the signer too.
DesWriteStepShared ==
    /\ dPc = "open"
    /\ \E n \in 0..(Len(dCall.payload) - dPos) :
          \E r \in {DesWriteAll(des, SubSeq(dCall.payload, dPos + 1, dPos + n))} :
              /\ des' = r.w
              /\ dPc' = IF r.ok THEN "open" ELSE "panicked"
              /\ dPos' = IF r.ok THEN dPos + n ELSE dPos
              /\ dTrace' = IF r.ok THEN Traced(dTrace, n, r.w.encoder.extra) ELSE dTrace
              /\ ser' = IF r.ok
                        THEN [ser EXCEPT !.signer.buf =
                                 @ \o SubSeq(r.w.verifier.buf, Len(des.verifier.buf) + 1,
                                             Len(r.w.verifier.buf))]
                        ELSE ser
    /\ UNCHANGED <<dCall, dNew, dFinishes, verifyCalls>>
    /\ UNCHANGED <<sCall, sPc, sNew, sPos, sTrace, sFinishes, signCalls>>

\* write_all of the next n bytes of the payload.
DesWriteStep ==
    /\ dPc = "open"
    /\ \E n \in 0..(Len(dCall.payload) - dPos) :
          \E r \in {DesWriteAll(des, SubSeq(dCall.payload, dPos + 1, dPos + n))} :
              /\ des' = r.w
              /\ dPc' = IF r.ok THEN "open" ELSE "panicked"
              /\ dPos' = IF r.ok THEN dPos + n ELSE dPos
              /\ dTrace' = IF r.ok THEN Traced(dTrace, n, r.w.encoder.extra) ELSE dTrace
    /\ UNCHANGED <<dCall, dNew, dFinishes, verifyCalls>>
    /\ UNCHANGED serVars

\* flush()
DesFlushStep ==
    /\ dPc = "open"
    /\ \E r \in {DesFlush(des)} :
           /\ des' = r.w
           /\ dPc' = IF r.ok THEN "open" ELSE "panicked"
           /\ dTrace' = IF r.ok
                        THEN [dTrace EXCEPT !.flushed = TRUE,
                                            !.held = @ \/ Len(des.encoder.extra) > 0]
                        ELSE dTrace
    /\ UNCHANGED <<dCall, dNew, dPos, dFinishes, verifyCalls>>
    /\ UNCHANGED serVars

\* finish()
DesFinishStep ==
    /\ dPc = "open"
    /\ Len(dFinishes) < MaxFinish
    /\ \E r \in {DesFinish(des)} :
           /\ des' = r.w
           /\ verifyCalls' =
                  IF r.verified
                  THEN Append(verifyCalls,
                           [kind |-> r.w.verifier.kind, input |-> r.input,
                            signature |-> des.signature, ok |-> r.check.ok,
                            valid |-> r.check.valid])
                  ELSE verifyCalls
           /\ dFinishes' = Append(dFinishes,
                  [ok |-> r.ok, err |-> r.err, header |-> r.header,
                   verifies |-> Len(verifyCalls')])
           /\ dPc' = IF r.err = "Panic" THEN "panicked" ELSE "open"
    /\ UNCHANGED <<dCall, dNew, dPos, dTrace>>
    /\ UNCHANGED serVars

\* Before the deserializer is created, one byte of the payload it will be
\* given is changed (the token, and the verifier of the signing key, stay).
TamperPayload ==
    /\ dPc = "start"
    /\ dCall.tamper = "none"
    /\ dCall.selector = Const(dCall.origin.signer)
    /\ \E i \in 1..Len(dCall.payload) :
          \E b \in {0, 1, 255} \ {dCall.payload[i]} :
             dCall' = [dCall EXCEPT !.payload[i] = b, !.tamper = "payload"]
    /\ UNCHANGED <<dPc, dNew, des, dPos, dTrace, dFinishes, verifyCalls>>
    /\ UNCHANGED serVars

\* Before the deserializer is created, one byte of the token's signature
\* field is changed.
TamperSignature ==
    /\ dPc = "start"
    /\ dCall.tamper = "none"
    /\ dCall.origin \in TamperOrigins
    /\ dCall.selector = Const(dCall.origin.signer)
    /\ \E i \in SignatureStart(dCall.jws)..Len(dCall.jws) :
          \E b \in TamperBytes \ {dCall.jws[i]} :
             dCall' = [dCall EXCEPT !.jws[i] = b, !.tamper = "signature"]
    /\ UNCHANGED <<dPc, dNew, des, dPos, dTrace, dFinishes, verifyCalls>>
    /\ UNCHANGED serVars

\* The caller of the round trip hands the token that finish() returned, and
\* the payload it signed, to a deserializer.
HandOver ==
    /\ dCall = NoDCall
    /\ sPos = Len(sCall.payload)
    /\ sFinishes # <<>>
    /\ sFinishes[1].ok
    /\ \E s \in {Const(sCall.signer), ByAlg} :
          dCall' = [jws |-> sFinishes[1].sink, payload |-> sCall.payload,
                    selector |-> s, origin |-> sCall, tamper |-> "none"]
    /\ UNCHANGED <<dPc, dNew, des, dPos, dTrace, dFinishes, verifyCalls>>
    /\ UNCHANGED serVars

\* -------------------------------------------------------- specifications

\* The serializer alone, over all its calls.
SerInit == sCall \in SerCalls /\ SerIdle /\ dCall = NoDCall /\ DesIdle

SerNext == SerNewStep \/ SerWriteStep \/ SerFlushStep \/ SerFinishStep

SerSpec == SerInit /\ [][SerNext]_vars

\* The deserializer alone, over tokens made by serialize, changed or not.
DesInit == sCall = NoCall /\ SerIdle /\ dCall \in DesCalls /\ DesIdle

DesNext ==
    \/ TamperPayload
    \/ TamperSignature
    \/ DesNewStep
    \/ DesWriteStep
    \/ DesFinishStep

DesSpec == DesInit /\ [][DesNext]_vars

\* The round trip: a serializer, then a deserializer on its token.
Init == sCall \in RoundTripCalls /\ SerIdle /\ dCall = NoDCall /\ DesIdle

Next ==
    \/ SerNewStep
    \/ SerWriteStep
    \/ SerFinishStep
    \/ HandOver
    \/ DesNewStep
    \/ DesWriteStep
    \/ DesFinishStep

Spec == Init /\ [][Next]_vars

\* Two pipelines side by side, a serializer and a deserializer, each with its
\* own call, its own session and its own sink; their steps interleave in
\* every order. The signer may be one whose get_sign fails, the verifier the
\* matching one, the one of the other key, or one whose verify fails.
PairSerCalls ==
    [algorithm : {RS256}, header : {HeaderKV},
     payload : {PatternPayload(1), PatternPayload(MaxPayloadLen)},
     signer : {"dummy", "failing"}]

PairDesCalls ==
    {c \in ExactCalls :
        /\ c.origin.algorithm = RS256
        /\ c.origin.signer = "rs256"
        /\ Len(c.payload) \in {1, MaxPayloadLen}
        /\ c.selector \in {Const("rs256"), Const("ps256"), Const("failing")}}

PairInit == sCall \in PairSerCalls /\ SerIdle /\ dCall \in PairDesCalls /\ DesIdle

PairNext ==
    \/ SerNewStep
    \/ SerWriteStep
    \/ SerFinishStep
    \/ DesNewStep
    \/ DesWriteStep
    \/ DesFinishStep

PairSpec == PairInit /\ [][PairNext]_vars

\* The two pipelines with flush calls between their other steps, on the
\* longest payload: a serializer whose signer signs, and a deserializer with
\* the matching verifier or the verifier of another algorithm.
FlushSerCalls == {c \in PairSerCalls : Len(c.payload) = MaxPayloadLen /\ c.signer = "dummy"}

FlushDesCalls ==
    {c \in PairDesCalls :
        Len(c.payload) = MaxPayloadLen /\ c.selector \in {Const("rs256"), Const("ps256")}}

FlushInit == sCall \in FlushSerCalls /\ SerIdle /\ dCall \in FlushDesCalls /\ DesIdle

FlushNext ==
    \/ SerNewStep
    \/ SerWriteStep
    \/ SerFlushStep
    \/ SerFinishStep
    \/ DesNewStep
    \/ DesWriteStep
    \/ DesFlushStep
    \/ DesFinishStep

FlushSpec == FlushInit /\ [][FlushNext]_vars

\* ------------------------------------------------------------ properties

\* The header of the token of call c: the call's header with alg set.
TokenHeader(c) == Insert(c.header, AlgKey, c.algorithm)

\* What the signer of call c must have received once n payload bytes were
\* written: the encoded header, one dot, the encoded payload.
SigningInput(c, n) ==
    Base64UrlNoPad(JsonText(TokenHeader(c))) \o <<DOT_BYTE>>
        \o Base64UrlNoPad(SubSeq(c.payload, 1, n))

Fields(jws) == SplitOn(jws, DOT_BYTE)

\* The first finish() of the deserializer was called after the whole payload
\* of the call had been written.
DesFinishedWhole == dFinishes # <<>> /\ dPos = Len(dCall.payload)

\* The first finish() of the serializer was called after the whole payload
\* of the call had been written.
SerFinishedWhole == sFinishes # <<>> /\ sPos = Len(sCall.payload)

\* h holds every member of the call's header other than alg, and alg = A.
Recovers(h, c) ==
    /\ \A m \in c.header : m[1] # AlgKey => m \in h
    /\ AlgKey \in Keys(h)
    /\ Get(h, AlgKey) = c.algorithm

\* C1 (round trip): when the token a serializer produced for (A, H, P) and
\* the payload P are given to a deserializer with the verifier matching the
\* signer, finish succeeds and returns a header with every member of H other
\* than alg, and alg = A; the one-shot deserialize(serialize(..)) does the
\* same.
C1_RoundTrip ==
    /\ (DesFinishedWhole /\ dCall.selector = Const(dCall.origin.signer))
          => /\ dFinishes[1].ok
             /\ Recovers(dFinishes[1].header, dCall.origin)
    /\ sCall # NoCall
          => \E r \in {deserialize(Token(sCall), sCall.payload, sCall.signer)} :
                r.ok /\ Recovers(r.header, sCall)

\* The empty payload and a header whose own alg member is replaced went
\* round, with the matching verifier.
C1_Witness ==
    /\ DesFinishedWhole
    /\ dCall.selector = Const(dCall.origin.signer)
    /\ dCall.payload = <<>>
    /\ dCall.origin.header = HeaderAlg
    /\ dFinishes[1].ok

\* The outcome of new, one write_all of the whole payload, finish.
OneChunk(c) ==
    SerFinish(SerWriteAll(SerNew(c.algorithm, c.header, c.signer).w, c.payload).w)

\* C2 (chunking invariance): however the payload was split into write_all
\* calls, finish has the outcome, leaves the sink and gave the signer the
\* input that one write_all of the whole payload gives.
C2_ChunkingInvariance ==
    SerFinishedWhole
       => \E one \in {OneChunk(sCall)} :
             /\ sFinishes[1].ok = one.ok
             /\ sFinishes[1].err = one.err
             /\ sFinishes[1].sink = one.w.sink
             /\ signCalls # <<>>
             /\ signCalls[1] = one.input

\* A payload written in several chunks, one of them empty, one of them
\* leaving bytes in the encoder.
C2_Witness ==
    /\ SerFinishedWhole
    /\ sFinishes[1].ok
    /\ sTrace.chunks >= 2
    /\ sTrace.empty
    /\ sTrace.left

\* C3 (signing input): at every get_sign the signer has received exactly the
\* encoded header, one dot and the base64url-no-pad of the payload bytes
\* written so far; the call of the concrete vector yields the literal token.
C3_SigningInput ==
    /\ Len(signCalls) <= 1
    /\ \A i \in 1..Len(signCalls) : signCalls[i] = SigningInput(sCall, sPos)
    /\ (sCall = VectorCall /\ SerFinishedWhole)
          => sFinishes[1].ok /\ sFinishes[1].sink = VectorToken

\* The concrete vector was signed and its token written.
C3_Witness ==
    /\ sCall = VectorCall
    /\ SerFinishedWhole
    /\ signCalls # <<>>
    /\ sTrace.chunks >= 2

\* The signature of a signer of the given kind over the given input.
SignatureOver(kind, input) == get_sign([kind |-> kind, buf |-> input]).signature

\* C4 (wire format): after a successful finish the sink holds the encoded
\* header, two dots and the base64url-no-pad of the signature; the first
\* field is what the signer received before its dot; the token has exactly
\* two dots, an empty middle field and no '='.
C4_WireFormat ==
    \A i \in 1..Len(sFinishes) :
       sFinishes[i].ok
          => \E f \in {Fields(sFinishes[i].sink)} :
                /\ Len(f) = 3
                /\ Cardinality({k \in 1..Len(sFinishes[i].sink) :
                                   sFinishes[i].sink[k] = DOT_BYTE}) = 2
                /\ f[2] = <<>>
                /\ f[1] = Base64UrlNoPad(JsonText(TokenHeader(sCall)))
                /\ signCalls # <<>>
                /\ f[1] \o <<DOT_BYTE>> = Take(signCalls[1], Len(f[1]) + 1)
                /\ f[3] = Base64UrlNoPad(SignatureOver(sCall.signer, signCalls[1]))
                /\ sFinishes[i].sink = f[1] \o <<DOT_BYTE, DOT_BYTE>> \o f[3]
                /\ \A k \in 1..Len(sFinishes[i].sink) : sFinishes[i].sink[k] # 61

\* A token over a payload of the greatest length, signed with a key.
C4_Witness ==
    /\ sFinishes # <<>>
    /\ sFinishes[1].ok
    /\ sCall.signer = "rs256"
    /\ sPos = MaxPayloadLen

\* The deserializer's call has a payload byte or a signature byte changed.
Tampered == dCall.tamper \in {"payload", "signature"}

VerifiesBefore(i) == IF i = 1 THEN 0 ELSE dFinishes[i - 1].verifies

\* C6 (header disclosure): a finish returns the parsed header exactly when
\* its verify call answered true; an answer of false gives SignatureInvalid,
\* an error of verify gives CryptoError, and neither returns a header.
C6_HeaderOnlyOnSuccess ==
    \A i \in 1..Len(dFinishes) :
       IF dFinishes[i].verifies = VerifiesBefore(i)
       THEN ~dFinishes[i].ok /\ dFinishes[i].header = {}
       ELSE \E v \in {verifyCalls[dFinishes[i].verifies]} :
               /\ dFinishes[i].verifies = VerifiesBefore(i) + 1
               /\ dFinishes[i].ok <=> (v.ok /\ v.valid)
               /\ dFinishes[i].ok
                     => /\ dFinishes[i].err = ""
                        /\ dFinishes[i].header = DecodeHeader(Fields(dCall.jws)[1]).header
               /\ (v.ok /\ ~v.valid)
                     => /\ dFinishes[i].err = "SignatureInvalid"
                        /\ dFinishes[i].header = {}
               /\ ~v.ok
                     => /\ dFinishes[i].err = "CryptoError"
                        /\ dFinishes[i].header = {}

\* The verification itself failed.
C6_Witness ==
    /\ dFinishes # <<>>
    /\ verifyCalls # <<>>
    /\ ~verifyCalls[1].ok
    /\ dFinishes[1].err = "CryptoError"

\* C7 as stated (field count): new fails with FormatError on every token
\* that does not have exactly 3 fields.
C7_ExactlyThreeFields ==
    (dPc # "start" /\ Len(Fields(dCall.jws)) # 3) => dNew.err = "FormatError"

\* A token of 4 or more fields was accepted and verified.
C7_Witness ==
    /\ Len(Fields(dCall.jws)) >= 4
    /\ dFinishes # <<>>
    /\ dFinishes[1].ok

\* The token has fewer than 3 fields, a field 1 that is not the base64url of
\* a JSON object, or a field 3 that is not base64url-no-pad.
BadFormat(jws) ==
    \/ Len(Fields(jws)) < 3
    \/ ~DecodeHeader(Fields(jws)[1]).ok
    \/ ~Base64Decode(Fields(jws)[3]).ok

TagOfKey(c) ==
    \/ c.algorithm = RS256 /\ c.signer = "rs256"
    \/ c.algorithm = PS256 /\ c.signer = "ps256"

\* C9 (selector routing): under the selector that branches on alg, a token
\* signed with a key and declaring its tag is verified by that key's verifier
\* only, and accepted; a header for which the selector returns none gives
\* VerifierNotFound with no byte written to a verifier and no verify call;
\* and a new that gets past the format checks invokes the selector exactly
\* once, with the header parsed from field 1.
C9_SelectorRouting ==
    /\ (dCall.selector = ByAlg /\ dCall.tamper = "none" /\ TagOfKey(dCall.origin)
           /\ dPc # "start")
          => /\ dNew.err = ""
             /\ des.verifier.kind = dCall.origin.signer
             /\ \A i \in 1..Len(verifyCalls) :
                   verifyCalls[i].kind = dCall.origin.signer
             /\ DesFinishedWhole => dFinishes[1].ok
    /\ (dPc # "start" /\ ~BadFormat(dCall.jws))
          => /\ dNew.selected = <<DecodeHeader(Fields(dCall.jws)[1]).header>>
             /\ \E r \in {Select(dCall.selector, dNew.selected[1])} :
                   (~r.panic /\ ~r.some) <=> dNew.err = "VerifierNotFound"
    /\ (dPc # "start" /\ dNew.err = "VerifierNotFound")
          => /\ dPc = "failed"
             /\ des.verifier = NoSession
             /\ verifyCalls = <<>>
             /\ dFinishes = <<>>
    /\ (dCall.selector = ByAlg /\ dCall.tamper = "none" /\ dPc # "start"
           /\ dCall.origin.algorithm = HS256)
          => dNew.err = "VerifierNotFound"

\* The selector chose the second key for a token declaring its tag, and the
\* token was accepted.
C9_Witness ==
    /\ dCall.selector = ByAlg
    /\ dCall.tamper = "none"
    /\ dCall.origin.signer = "ps256"
    /\ dCall.origin.algorithm = PS256
    /\ DesFinishedWhole
    /\ dFinishes[1].ok

\* C10 (double finish after success): on both pipelines, every finish after
\* a successful one returns AlreadyFinished, makes no get_sign or verify call
\* and leaves the sink as it was.
C10_DoubleFinish ==
    /\ \A i \in 1..Len(sFinishes) : \A j \in (i + 1)..Len(sFinishes) :
          sFinishes[i].ok
             => /\ ~sFinishes[j].ok
                /\ sFinishes[j].err = "AlreadyFinished"
                /\ sFinishes[j].signs = sFinishes[i].signs
                /\ sFinishes[j].sink = sFinishes[i].sink
    /\ \A i \in 1..Len(dFinishes) : \A j \in (i + 1)..Len(dFinishes) :
          dFinishes[i].ok
             => /\ ~dFinishes[j].ok
                /\ dFinishes[j].err = "AlreadyFinished"
                /\ dFinishes[j].verifies = dFinishes[i].verifies
                /\ dFinishes[j].header = {}

\* Both pipelines were finished again after a successful finish.
C10_Witness ==
    /\ Len(sFinishes) >= 2
    /\ sFinishes[1].ok
    /\ Len(dFinishes) >= 2
    /\ dFinishes[1].ok

\* C11 as stated (double finish after failure): on both pipelines, when the
\* first finish failed, every later finish returns AlreadyFinished.
C11_AlreadyFinishedAfterFailure ==
    /\ \A j \in 2..Len(sFinishes) :
          ~sFinishes[1].ok => sFinishes[j].err = "AlreadyFinished"
    /\ \A j \in 2..Len(dFinishes) :
          ~dFinishes[1].ok => dFinishes[j].err = "AlreadyFinished"

\* On both pipelines the first finish failed (get_sign failed; verify
\* answered false or failed) and the second finish panicked.
C11_Witness ==
    /\ Len(sFinishes) >= 2
    /\ sFinishes[1].err = "CryptoError"
    /\ sFinishes[2].err = "Panic"
    /\ Len(dFinishes) >= 2
    /\ dFinishes[1].err \in {"SignatureInvalid", "CryptoError"}
    /\ dFinishes[2].err = "Panic"

\* A write_all step of the serializer, resp. the deserializer, made after a
\* finish call.
SerWriteAfterFinish == sFinishes # <<>> /\ sFinishes' = sFinishes /\ serVars' # serVars

DesWriteAfterFinish == dFinishes # <<>> /\ dFinishes' = dFinishes /\ desVars' # desVars

\* C12 as stated (write after finish): on both pipelines a write made after
\* finish is rejected with an error value: the call returns, the writer
\* stays as it was and no byte reaches the session.
C12_WriteAfterFinishRejected ==
    [][/\ SerWriteAfterFinish => (sPc' = sPc /\ ser' = ser /\ sPos' = sPos)
       /\ DesWriteAfterFinish => (dPc' = dPc /\ des' = des /\ dPos' = dPos)]_vars

\* On both pipelines a write made after finish panicked: the last finish
\* returned, and no step follows the write.
C12_Witness ==
    /\ sPc = "panicked"
    /\ Len(sFinishes) = 1
    /\ sFinishes[1].ok
    /\ dPc = "panicked"
    /\ Len(dFinishes) = 1
    /\ dFinishes[1].err = "SignatureInvalid"

\* C13 (alg overwrite): once new has returned Ok, the first field of the sink
\* is the encoding of a JSON object whose alg member is the call's algorithm,
\* also when the caller's header held another alg, and whose other members
\* are exactly those of the caller's header.
C13_AlgOverwrite ==
    sPc = "open"
       => \E d \in {DecodeHeader(Fields(ser.sink)[1])} :
             /\ d.ok
             /\ AlgKey \in Keys(d.header)
             /\ Get(d.header, AlgKey) = sCall.algorithm
             /\ Cardinality({m \in d.header : m[1] = AlgKey}) = 1
             /\ {m \in d.header : m[1] # AlgKey} = {m \in sCall.header : m[1] # AlgKey}

\* new has encoded a header for a caller's header that held another alg.
C13_Witness ==
    /\ sPc = "open"
    /\ sCall.header = HeaderAlg
    /\ sCall.algorithm = RS256
    /\ Get(sCall.header, AlgKey) # sCall.algorithm

\* Middle fields: empty, text outside the base64 alphabet, base64 text, and
\* the encoded header itself.
MiddleFields(jws) == {<<>>, <<120, 33, 122>>, <<65, 65, 65, 65>>, Fields(jws)[1]}

\* The token with its second field replaced by m (the token has 3 fields or
\* more).
WithMiddle(jws, m) ==
    Fields(jws)[1] \o <<DOT_BYTE>> \o m
        \o SubSeq(jws, SeparatorAt(jws, DOT_BYTE, 2), Len(jws))

\* C14 (lenient middle field): for the token of the call and every token
\* that differs from it in the middle field only, new has the same outcome:
\* the same error or the same parsed header, candidate signature and bytes
\* fed to the verifier, and the same selector calls; and new, the copy of
\* the payload and finish have the same outcome (compared once per call,
\* when new has returned). The outcome of the run itself is the one of the
\* token with an empty middle field.
C14_MiddleFieldIgnored ==
    (dPc # "start" /\ Len(Fields(dCall.jws)) >= 3)
       => /\ \A m \in IF dPos = 0 /\ dFinishes = <<>>
                        THEN MiddleFields(dCall.jws) ELSE {} :
                /\ DesNew(WithMiddle(dCall.jws, m), dCall.selector)
                      = DesNew(dCall.jws, dCall.selector)
                /\ deserialize_selector(WithMiddle(dCall.jws, m), dCall.payload,
                                        dCall.selector)
                      = deserialize_selector(dCall.jws, dCall.payload, dCall.selector)
          /\ \E n \in {DesNew(WithMiddle(dCall.jws, <<>>), dCall.selector)} :
                /\ dNew = [err |-> n.err, selected |-> n.selected]
                /\ dFinishes = <<>> => des.header = n.w.header
                /\ dFinishes = <<>> => des.signature = n.w.signature
                /\ (dFinishes = <<>> /\ dPos = 0) => des.verifier = n.w.verifier
          /\ DesFinishedWhole
                => \E r \in {deserialize_selector(WithMiddle(dCall.jws, <<>>),
                                                  dCall.payload, dCall.selector)} :
                      /\ dFinishes[1].ok = r.ok
                      /\ dFinishes[1].err = r.err
                      /\ dFinishes[1].header = r.header

\* A token with a non-empty middle field was accepted and verified.
C14_Witness ==
    /\ Len(Fields(dCall.jws)) = 3
    /\ Fields(dCall.jws)[2] # <<>>
    /\ DesFinishedWhole
    /\ dFinishes[1].ok

\* C15 (one-shot equivalence): serialize(A, H, P, signer) returns the token,
\* or the error, of new on an empty sink, write_all of the bytes of P in any
\* chunks, finish; deserialize(token, P, verifier) has the outcome of new
\* with the selector that returns that verifier for every header, the same
\* writes, finish, and the outcome of deserialize_selector with that
\* selector.
C15_OneShot ==
    /\ SerFinishedWhole
          => \E r \in {serialize(sCall.algorithm, sCall.header, sCall.payload,
                                 sCall.signer)} :
                /\ r.ok = sFinishes[1].ok
                /\ r.err = sFinishes[1].err
                /\ r.ok => r.token = sFinishes[1].sink
    /\ (DesFinishedWhole /\ dCall.selector.type = "const")
          => \E r \in {deserialize(dCall.jws, dCall.payload, dCall.selector.kind)} :
                /\ r.ok = dFinishes[1].ok
                /\ r.err = dFinishes[1].err
                /\ r.header = dFinishes[1].header
                /\ r = deserialize_selector(dCall.jws, dCall.payload,
                                            Const(dCall.selector.kind))

\* Both pipelines finished after payloads written in several chunks: a token
\* was returned and a header was returned.
C15_Witness ==
    /\ SerFinishedWhole
    /\ sFinishes[1].ok
    /\ sTrace.chunks >= 2
    /\ DesFinishedWhole
    /\ dFinishes[1].ok
    /\ dTrace.chunks >= 2

\* The outcome of the serializer of call c run alone: new, write_all of the
\* first n bytes of the payload, finish.
SerAlone(c, n) ==
    SerFinish(SerWriteAll(SerNew(c.algorithm, c.header, c.signer).w,
                          Take(c.payload, n)).w)

\* The outcome of the deserializer of call c run alone.
DesAlone(c, n) ==
    DesFinish(DesWriteAll(DesNew(c.jws, c.selector).w, Take(c.payload, n)).w)

\* The first finish of each pipeline has the outcome of the pipeline run
\* alone on the same call and the same bytes.
OutcomeAsAlone ==
    /\ sFinishes # <<>>
          => \E r \in {SerAlone(sCall, sPos)} :
                /\ sFinishes[1].ok = r.ok
                /\ sFinishes[1].err = r.err
                /\ sFinishes[1].sink = r.w.sink
                /\ signCalls = IF r.signed THEN <<r.input>> ELSE <<>>
    /\ dFinishes # <<>>
          => \E r \in {DesAlone(dCall, dPos)} :
                /\ dFinishes[1].ok = r.ok
                /\ dFinishes[1].err = r.err
                /\ dFinishes[1].header = r.header
                /\ Len(verifyCalls) = 1
                /\ verifyCalls[1].input = r.input

\* C16 (independent pipelines): with the steps of a serializer and of a
\* deserializer interleaved in any order, a step changes the state of one
\* pipeline only, and the token or the verification outcome of each pipeline
\* is the one it produces alone.
C16_IndependentPipelines ==
    /\ []OutcomeAsAlone
    /\ [][serVars' = serVars \/ desVars' = desVars]_vars

\* Both pipelines ran in one behaviour: each wrote its payload in several
\* chunks, the serializer returned a token, the deserializer returned a
\* header and was finished again.
C16_Witness ==
    /\ sFinishes # <<>>
    /\ sFinishes[1].ok
    /\ dFinishes # <<>>
    /\ dFinishes[1].ok
    /\ sTrace.chunks >= 2
    /\ dTrace.chunks >= 2
    /\ Len(sFinishes) = 1
    /\ Len(dFinishes) = MaxFinish

\* C17 (verification input): each time finish invoked verify, the verifier
\* had received the bytes of the token's first field as they are in the
\* token, a dot, and the base64url text without padding of the payload bytes
\* written so far; the candidate signature is the decoding of the third
\* field.
C17_VerificationInput ==
    \A i \in 1..Len(verifyCalls) :
        /\ verifyCalls[i].input
              = Fields(dCall.jws)[1] \o <<DOT_BYTE>>
                   \o Base64UrlNoPad(Take(dCall.payload, dPos))
        /\ Base64Decode(Fields(dCall.jws)[3]).ok
        /\ verifyCalls[i].signature = Base64Decode(Fields(dCall.jws)[3]).bytes

\* verify was invoked for a token whose first field is not the encoding the
\* serializer gives its parsed header, after the whole payload was written.
C17_Witness ==
    /\ verifyCalls # <<>>
    /\ DesFinishedWhole
    /\ dPos > 0
    /\ DecodeHeader(Fields(dCall.jws)[1]).ok
    /\ EncodeHeader(DecodeHeader(Fields(dCall.jws)[1]).header) # Fields(dCall.jws)[1]

\* C18 (session finalized at most once): over every sequence of write_all
\* and finish calls on a writer, a failed finish followed by another finish
\* included, get_sign is invoked at most once on the serializer's signer and
\* verify at most once on the deserializer's verifier; no finish after the
\* first invokes them.
C18_FinalizeAtMostOnce ==
    /\ Len(signCalls) <= 1
    /\ Len(verifyCalls) <= 1
    /\ \A j \in 1..Len(sFinishes) : sFinishes[j].signs <= 1
    /\ \A j \in 1..Len(dFinishes) : dFinishes[j].verifies <= 1

\* On both writers a finish failed in the session's finalize operation and
\* finish was called again.
C18_Witness ==
    /\ Len(sFinishes) >= 2
    /\ sFinishes[1].err = "CryptoError"
    /\ Len(signCalls) = 1
    /\ Len(dFinishes) >= 2
    /\ dFinishes[1].err \in {"CryptoError", "SignatureInvalid"}
    /\ Len(verifyCalls) = 1

\* C19 (the payload never reaches the sink): from a successful new until
\* finish the sink holds the encoded header and two dots; every write_all
\* and every flush leaves the sink as it was.
C19_SinkUntouched ==
    /\ []((sPc # "start" /\ sPc # "failed" /\ sFinishes = <<>>)
             => ser.sink = EncodeHeader(TokenHeader(sCall)) \o DOT_ARRAY \o DOT_ARRAY)
    /\ [][(sPc # "start" /\ sFinishes' = sFinishes) => ser'.sink = ser.sink]_vars

\* The whole payload was written in several chunks, one of them leaving
\* bytes in the encoder, the writer was flushed, and finish was not called.
C19_Witness ==
    /\ sPc = "open"
    /\ sFinishes = <<>>
    /\ sPos = Len(sCall.payload)
    /\ sPos >= 2
    /\ sTrace.chunks >= 2
    /\ sTrace.left
    /\ sTrace.flushed

\* C20 (no output on a failure of the session): when new fails because the
\* signer rejects the header bytes, nothing was written to the sink and no
\* writer exists; when finish fails because get_sign fails, the sink holds
\* the encoded header and two dots as before, stays with the writer, and no
\* token is returned.
C20_NoOutputOnCryptoFailure ==
    /\ sPc = "failed"
          => /\ sNew = "CryptoError"
             /\ ser.sink = <<>>
             /\ ~ser.delegate
             /\ sFinishes = <<>>
    /\ \A j \in 1..Len(sFinishes) :
          sFinishes[j].err = "CryptoError"
             => /\ ~sFinishes[j].ok
                /\ sFinishes[j].sink
                      = EncodeHeader(TokenHeader(sCall)) \o DOT_ARRAY \o DOT_ARRAY
                /\ ser.sink = sFinishes[j].sink
                /\ ser.delegate
    /\ (sCall # NoCall /\ sCall.signer = "rejecting") => sPc \in {"start", "failed"}
    /\ (sCall # NoCall /\ sCall.signer = "failing")
          => \A j \in 1..Len(sFinishes) : ~sFinishes[j].ok

\* get_sign failed in a finish called after the payload was written.
C20_Witness ==
    /\ sCall.signer = "failing"
    /\ sPos = Len(sCall.payload)
    /\ sPos > 0
    /\ sFinishes # <<>>
    /\ sFinishes[1].err = "CryptoError"

\* What a session has received once n payload bytes were written and finish
\* was not called: the head (header field and dot) and the encoding of the
\* complete groups of 3 bytes; the encoder holds the other 1 or 2 bytes.
BeforeFinish(head, payload, n) ==
    head \o Base64UrlNoPad(Take(payload, n - (n % MIN_ENCODE_CHUNK_SIZE)))

Leftover(payload, n) ==
    SubSeq(payload, n - (n % MIN_ENCODE_CHUNK_SIZE) + 1, n)

\* A step of an open writer that writes no payload byte and is no finish: a
\* flush, or a write_all of an empty chunk.
SerFlushLike == sPc = "open" /\ sPos' = sPos /\ sFinishes' = sFinishes
DesFlushLike == dPc = "open" /\ dPos' = dPos /\ dFinishes' = dFinishes

\* Flushed or not, an open writer that was not finished holds the leftover
\* bytes in its encoder, and its session has received the encoding of the
\* complete groups only.
FlushInvisible ==
    /\ (sPc = "open" /\ sFinishes = <<>>)
          => /\ ser.encoder.extra = Leftover(sCall.payload, sPos)
             /\ ser.signer.buf
                   = BeforeFinish(EncodeHeader(TokenHeader(sCall)) \o <<DOT_BYTE>>,
                                  sCall.payload, sPos)
    /\ (dPc = "open" /\ dFinishes = <<>>)
          => /\ des.encoder.extra = Leftover(dCall.payload, dPos)
             /\ des.verifier.buf
                   = BeforeFinish(Fields(dCall.jws)[1] \o <<DOT_BYTE>>,
                                  dCall.payload, dPos)

\* The first finish of the serializer, flushed or not, gives get_sign the
\* input and has the outcome of the run without flush.
SerFirstFinish ==
    (sFinishes = <<>> /\ sFinishes' # <<>>)
       => \E r \in {SerAlone(sCall, sPos)} :
             /\ signCalls' = <<r.input>>
             /\ r.input = SigningInput(sCall, sPos)
             /\ sFinishes'[1].ok = r.ok
             /\ sFinishes'[1].err = r.err
             /\ sFinishes'[1].sink = r.w.sink

\* The first finish of the deserializer, flushed or not, gives verify the
\* input and has the outcome of the run without flush.
DesFirstFinish ==
    (dFinishes = <<>> /\ dFinishes' # <<>>)
       => \E r \in {DesAlone(dCall, dPos)} :
             /\ Len(verifyCalls') = 1
             /\ verifyCalls'[1].input = r.input
             /\ r.input = Fields(dCall.jws)[1] \o <<DOT_BYTE>>
                             \o Base64UrlNoPad(Take(dCall.payload, dPos))
             /\ dFinishes'[1].ok = r.ok
             /\ dFinishes'[1].err = r.err
             /\ dFinishes'[1].header = r.header

\* C21 (flush does not end the encoding): a flush between two write_all
\* calls hands none of the 1 or 2 bytes the encoder holds to the session;
\* with any number of flush calls the session has received, when finish
\* invokes get_sign or verify, what it receives without them, and the token
\* or the outcome of the verification is the same; the held bytes are
\* encoded once, by finish.
C21_FlushKeepsLeftover ==
    /\ []FlushInvisible
    /\ [][/\ SerFlushLike => ser' = ser
          /\ DesFlushLike => des' = des
          /\ SerFirstFinish
          /\ DesFirstFinish]_vars

\* Each writer was flushed while its encoder held 1 or 2 bytes, received
\* more bytes up to a multiple of 3, and was finished: a token and a header
\* were returned.
C21_Witness ==
    /\ sTrace.held
    /\ sPos > 0
    /\ sPos % MIN_ENCODE_CHUNK_SIZE = 0
    /\ sFinishes # <<>>
    /\ sFinishes[1].ok
    /\ dTrace.held
    /\ dPos > 0
    /\ dPos % MIN_ENCODE_CHUNK_SIZE = 0
    /\ dFinishes # <<>>
    /\ dFinishes[1].ok

====
